---- MODULE Spec2Model ----
(***************************************************************************)
(* Desk Butler Cloud Proxy (src/app.py).                                   *)
(*                                                                         *)
(* Two endpoints share the module-level dict LATEST:                       *)
(*   upload(robot_id, image)  stores the latest snapshot of a robot;       *)
(*   brain(robot_id)          reads it, asks the planning oracle for a raw *)
(*                            plan and validates the plan's commands.      *)
(*                                                                         *)
(* Spec  is the server: uploads and brain requests interleaving.           *)
(* SpecV is the validation loop of brain (lines 114-135) applied to raw    *)
(*       plans drawn from a bounded set of JSON values.                    *)
(***************************************************************************)
EXTENDS Integers, Sequences, FiniteSets, TLC

VARIABLES
    PROXY_API_KEY,  \* the configured proxy key, or NoKey
    LATEST,     \* robot id -> reference of its entry dict, or NoRef
    heap,       \* reference -> entry dict [b64, ts, mime]
    now,        \* the value time.time() returns
    up,         \* upload request slots
    br,         \* brain request slots
    stored,     \* history: what the upload that made each live entry stored
    raw,        \* SpecV: the cmds list of the raw plan under validation
    vpc,        \* SpecV: position of the validation harness
    res1,       \* SpecV: result of validating raw
    res2        \* SpecV: result of validating the returned cmds again

vars == <<PROXY_API_KEY, LATEST, heap, now, up, br, stored, raw, vpc, res1, res2>>
srvVars == <<PROXY_API_KEY, LATEST, heap, now, up, br, stored>>
valVars == <<raw, vpc, res1, res2>>

----------------------------------------------------------------------------
(* JSON values as Python sees them after json.loads.                       *)
(* A scalar is [k, s, h]: k the Python type, s the text of a str, h the    *)
(* numeric value in halves (h = 2 * value), so that 0.5 and 1500.5 exist.  *)
(* Floats also have the three non-finite values json.loads produces        *)
(* (1e400 parses to inf; the literals Infinity, -Infinity, NaN).           *)

PyInt(n)   == [k |-> "int",   s |-> "", h |-> 2 * n]
PyFlt(hv)  == [k |-> "float", s |-> "", h |-> hv]
PyStr(t)   == [k |-> "str",   s |-> t,  h |-> 0]
PyInf      == [k |-> "inf",   s |-> "", h |-> 0]
PyNegInf   == [k |-> "ninf",  s |-> "", h |-> 0]
PyNaN      == [k |-> "nan",   s |-> "", h |-> 0]
PyHuge     == [k |-> "huge",  s |-> "", h |-> 0]   \* an int beyond the float range
PyNone     == [k |-> "null",  s |-> "", h |-> 0]
PyTrue     == [k |-> "bool",  s |-> "", h |-> 2]
PyFalse    == [k |-> "bool",  s |-> "", h |-> 0]
PyNested   == [k |-> "list",  s |-> "", h |-> 2]   \* a list or dict as a field
PyErr(e)   == [k |-> "err",   s |-> e,  h |-> 0]   \* a raised exception

IsErr(v)   == v.k = "err"
IsFloatK(v) == v.k \in {"float", "inf", "ninf", "nan"}

\* An element of cmds: a list with its items, or any other JSON value.
PyList(its) == [k |-> "list", s |-> "", h |-> 0, items |-> its]
PyElem(v)   == [k |-> v.k, s |-> v.s, h |-> v.h, items |-> << >>]
PyDict(n)   == [k |-> "dict", s |-> "", h |-> n, items |-> << >>]   \* n keys
NoCmd       == PyElem(PyNone)

\* Truncation toward zero of a value in halves, in halves.
TruncH(hv) == IF hv >= 0 THEN 2 * (hv \div 2) ELSE -(2 * ((-hv) \div 2))

\* The strings of the model that Python's float() and int() accept.
StrFloat(t) ==
    CASE t = "7"   -> PyFlt(14)
      [] t = "1.5" -> PyFlt(3)
      [] OTHER     -> PyErr("ValueError")

StrInt(t) ==
    CASE t = "7"   -> PyInt(7)
      [] OTHER     -> PyErr("ValueError")

\* Python's float(v).
float(v) ==
    CASE v.k = "int"  -> PyFlt(v.h)
      [] v.k = "bool" -> PyFlt(v.h)
      [] v.k = "huge" -> PyErr("OverflowError")
      [] IsFloatK(v)  -> v
      [] v.k = "str"  -> StrFloat(v.s)
      [] OTHER        -> PyErr("TypeError")

\* Python's int(v).
int(v) ==
    CASE v.k \in {"int", "huge"} -> v
      [] v.k = "bool"  -> [k |-> "int", s |-> "", h |-> v.h]
      [] v.k = "float" -> [k |-> "int", s |-> "", h |-> TruncH(v.h)]
      [] v.k \in {"inf", "ninf"} -> PyErr("OverflowError")
      [] v.k = "nan"   -> PyErr("ValueError")
      [] v.k = "str"   -> StrInt(v.s)
      [] OTHER         -> PyErr("TypeError")

\* Python's a < b on numbers (every comparison with nan is false).
Rank(a) ==
    CASE a.k = "ninf" -> 0
      [] a.k = "huge" -> 2
      [] a.k = "inf"  -> 3
      [] OTHER        -> 1

Lt(a, b) ==
    IF a.k = "nan" \/ b.k = "nan" THEN FALSE
    ELSE IF Rank(a) = 1 /\ Rank(b) = 1 THEN a.h < b.h
    ELSE Rank(a) < Rank(b)

\* Python's min(a, b) and max(a, b): the first argument unless the second
\* is strictly smaller (larger).
min(a, b) == IF Lt(b, a) THEN b ELSE a
max(a, b) == IF Lt(a, b) THEN b ELSE a

\* Python's truth value of an element of cmds ("if not c").
Truthy(c) ==
    CASE c.k = "list" -> Len(c.items) > 0
      [] c.k = "str"  -> c.s # ""
      [] c.k = "null" -> FALSE
      [] c.k \in {"inf", "ninf", "nan", "huge"} -> TRUE
      [] OTHER        -> c.h # 0

\* The first character of the strings of the model.
FirstChar(t) ==
    CASE t = "HOME" -> "H"
      [] t = "MOVE" -> "M"
      [] OTHER      -> "x"

\* Python's c[0].
Index0(c) ==
    CASE c.k = "list" -> c.items[1]
      [] c.k = "str"  -> PyStr(FirstChar(c.s))
      [] c.k = "dict" -> PyErr("KeyError")
      [] OTHER        -> PyErr("TypeError")

----------------------------------------------------------------------------
(* The validation loop of brain.                                           *)

ARM_LIMITS ==
    [base     |-> <<PyInt(-150), PyInt(150)>>,
     shoulder |-> <<PyInt(-10),  PyInt(120)>>,
     elbow    |-> <<PyInt(0),    PyInt(130)>>,
     wrist    |-> <<PyInt(-90),  PyInt(90)>>]

MoveDurLimits == <<PyInt(1000), PyInt(20000)>>
WaitDurLimits == <<PyInt(0), PyInt(5000)>>

\* A mutant of clip: the upper bound is not applied.
clipNoUpper(v, lo, hi) == max(lo, v)

\* def clip(v, lo, hi): return max(lo, min(hi, v))
clip(v, lo, hi) == max(lo, min(hi, v))

\* clip(float(a), *ARM_LIMITS[joint])
ClipJoint(a, joint) ==
    LET f == float(a)
    IN  IF IsErr(f) THEN f ELSE clip(f, ARM_LIMITS[joint][1], ARM_LIMITS[joint][2])

\* A mutant of GripState: the two outcomes are swapped.
GripStateSwapped(g) ==
    LET i == int(g)
    IN  IF IsErr(i) THEN i ELSE IF i.h # 0 THEN PyInt(0) ELSE PyInt(1)

\* 1 if int(g) else 0
GripState(g) ==
    LET i == int(g)
    IN  IF IsErr(i) THEN i ELSE IF i.h # 0 THEN PyInt(1) ELSE PyInt(0)

\* int(max(1000, min(20000, int(T))))
MoveDuration(T) ==
    LET i == int(T)
    IN  IF IsErr(i) THEN i ELSE int(max(MoveDurLimits[1], min(MoveDurLimits[2], i)))

\* A mutant of WaitDuration: the upper bound is not applied.
WaitDurationNoUpper(v) ==
    LET i == int(v)
    IN  IF IsErr(i) THEN i ELSE int(max(WaitDurLimits[1], i))

\* int(max(0, min(5000, int(c[1]))))
WaitDuration(v) ==
    LET i == int(v)
    IN  IF IsErr(i) THEN i ELSE int(max(WaitDurLimits[1], min(WaitDurLimits[2], i)))

\* The first raised exception among the values computed in order, if any.
RECURSIVE FirstErr(_)
FirstErr(vs) ==
    IF vs = << >> THEN PyNone
    ELSE IF IsErr(Head(vs)) THEN Head(vs) ELSE FirstErr(Tail(vs))

Append1(cmd) == [r |-> "append", cmd |-> cmd,   exc |-> ""]
Skip         == [r |-> "skip",   cmd |-> NoCmd, exc |-> ""]
Raise(e)     == [r |-> "raise",  cmd |-> NoCmd, exc |-> e]

MoveArity == 7
PairArity == 2

\* The MOVE branch, lines 121-128.
MoveBranch(c) ==
    LET a0 == ClipJoint(c.items[2], "base")
        a1 == ClipJoint(c.items[3], "shoulder")
        a2 == ClipJoint(c.items[4], "elbow")
        a3 == ClipJoint(c.items[5], "wrist")
        g  == GripState(c.items[6])
        T  == MoveDuration(c.items[7])
        e  == FirstErr(<<a0, a1, a2, a3, g, T>>)
    IN  IF IsErr(e) THEN Raise(e.s)
        ELSE Append1(PyList(<<PyStr("MOVE"), a0, a1, a2, a3, g, T>>))

\* The GRIP branch, lines 131-132.
GripBranch(c) ==
    LET g == GripState(c.items[2])
    IN  IF IsErr(g) THEN Raise(g.s) ELSE Append1(PyList(<<PyStr("GRIP"), g>>))

\* The WAIT branch, lines 133-134.
WaitBranch(c) ==
    LET T == WaitDuration(c.items[2])
    IN  IF IsErr(T) THEN Raise(T.s) ELSE Append1(PyList(<<PyStr("WAIT"), T>>))

\* The HOME/STOP/STATUS branch, lines 129-130: the length of c is not read.
BareBranch(c, op) == Append1(PyList(<<op>>))

\* One iteration of "for c in cmds", lines 118-134.
ValidateCmd(c) ==
    IF ~Truthy(c) THEN Skip
    ELSE LET op == Index0(c)
         IN  CASE IsErr(op) -> Raise(op.s)
               [] ~IsErr(op) /\ op = PyStr("MOVE") /\ Len(c.items) = MoveArity
                    -> MoveBranch(c)
               [] ~IsErr(op) /\ ~(op = PyStr("MOVE") /\ Len(c.items) = MoveArity)
                  /\ op \in {PyStr("HOME"), PyStr("STOP"), PyStr("STATUS")}
                    -> BareBranch(c, op)
               [] ~IsErr(op) /\ op = PyStr("GRIP") /\ Len(c.items) = PairArity
                    -> GripBranch(c)
               [] ~IsErr(op) /\ op = PyStr("WAIT") /\ Len(c.items) = PairArity
                    -> WaitBranch(c)
               [] OTHER -> Skip

Returned(safe) == [ok |-> TRUE,  safe |-> safe,  exc |-> ""]
Escaped(e)     == [ok |-> FALSE, safe |-> << >>, exc |-> e]

\* "safe = []; for c in cmds: ..." from element i on; an exception raised in
\* the loop body is not caught and ends the request.
\* A mutant of SafeAppend: the command is put at the front of the list.
SafePrepend(safe, cmd) == <<cmd>> \o safe

\* safe.append(...)
SafeAppend(safe, cmd) == Append(safe, cmd)

RECURSIVE ValidateFrom(_, _, _)
ValidateFrom(cmds, i, safe) ==
    IF i > Len(cmds) THEN Returned(safe)
    ELSE LET step == ValidateCmd(cmds[i])
         IN  CASE step.r = "raise"  -> Escaped(step.exc)
               [] step.r = "append" -> ValidateFrom(cmds, i + 1, SafeAppend(safe, step.cmd))
               [] OTHER             -> ValidateFrom(cmds, i + 1, safe)

\* Lines 116-135 on a cmds list.
Validate(cmds) == ValidateFrom(cmds, 1, << >>)

----------------------------------------------------------------------------
(* Raw plans: the cmds lists the oracle's output can decode to.            *)

MaxContext == 2

\* Values a field of a command can carry.
Probes ==
    {PyInt(0), PyInt(1), PyInt(-1), PyInt(5), PyInt(200), PyInt(-200),
     PyInt(500), PyInt(1500), PyInt(99999),
     PyFlt(1), PyFlt(-1), PyFlt(101), PyFlt(3001),
     PyInf, PyNegInf, PyNaN, PyHuge,
     PyStr("abc"), PyStr("7"), PyStr("1.5"),
     PyNone, PyTrue, PyFalse, PyNested}

NominalMove ==
    <<PyStr("MOVE"), PyInt(10), PyInt(50), PyInt(60), PyInt(0), PyInt(1), PyInt(1500)>>

\* MOVE tuples of arity 7 that differ from the nominal one in one field.
MoveCmds == {PyList([NominalMove EXCEPT ![i] = v]) : i \in 2..7, v \in Probes}
WaitCmds == {PyList(<<PyStr("WAIT"), v>>) : v \in Probes}
GripCmds == {PyList(<<PyStr("GRIP"), v>>) : v \in Probes}

BareCmds ==
    {PyList(<<PyStr("HOME")>>), PyList(<<PyStr("STOP")>>), PyList(<<PyStr("STATUS")>>)}

\* Known tags with an arity the table does not allow.
WrongArityCmds ==
    {PyList(<<PyStr("HOME"), PyInt(1)>>),
     PyList(<<PyStr("STOP"), PyInt(1), PyInt(2)>>),
     PyList(<<PyStr("STATUS"), PyStr("abc")>>),
     PyList(<<PyStr("MOVE"), PyInt(1), PyInt(2)>>),
     PyList(NominalMove \o <<PyInt(3)>>),
     PyList(<<PyStr("WAIT")>>),
     PyList(<<PyStr("WAIT"), PyInt(1), PyInt(2)>>),
     PyList(<<PyStr("GRIP")>>),
     PyList(<<PyStr("GRIP"), PyInt(1), PyInt(2)>>)}

\* Lists whose first element is no known tag.
UnknownTagCmds ==
    {PyList(<<PyStr("FOO")>>), PyList(<<PyStr("home")>>),
     PyList(<<PyInt(5)>>), PyList(<<PyNested, PyInt(1)>>),
     PyList(<<PyStr("FOO"), PyInt(1)>>)}

\* Elements of cmds that are empty or no list at all.
NonSeqCmds ==
    {PyList(<< >>), PyElem(PyInt(5)), PyElem(PyInt(0)), PyElem(PyNone),
     PyElem(PyTrue), PyElem(PyStr("HOME")), PyElem(PyStr("")),
     PyDict(0), PyDict(1)}

SubjectCmds ==
    MoveCmds \cup WaitCmds \cup GripCmds \cup BareCmds \cup WrongArityCmds
    \cup UnknownTagCmds \cup NonSeqCmds

\* Well-formed commands that surround the subject command in a plan.
ContextCmds ==
    {PyList(<<PyStr("HOME")>>), PyList(<<PyStr("WAIT"), PyInt(100)>>), PyList(NominalMove)}

Contexts == UNION {[1..n -> ContextCmds] : n \in 0..MaxContext}

InsertAt(ctx, i, c) == SubSeq(ctx, 1, i) \o <<c>> \o SubSeq(ctx, i + 1, Len(ctx))

\* The plan of the spec's scenario.
ScenarioPlan ==
    <<PyList(<<PyStr("MOVE"), PyInt(200), PyInt(50), PyInt(60), PyInt(0), PyInt(1), PyInt(500)>>),
      PyList(<<PyStr("WAIT"), PyInt(99999)>>),
      PyList(<<PyStr("FOO")>>),
      PyList(<<PyStr("GRIP"), PyInt(5)>>)>>

RawPlans ==
    Contexts
    \cup UNION {{InsertAt(ctx, i, c) : i \in 0..Len(ctx), c \in SubjectCmds} : ctx \in Contexts}
    \cup {ScenarioPlan}

\* json.dumps of a returned value followed by json.loads at the receiver.
JsonScalar(v) ==
    CASE v.k = "int"   -> PyInt(v.h \div 2)
      [] v.k = "float" -> PyFlt(v.h)
      [] v.k = "str"   -> PyStr(v.s)
      [] OTHER         -> v

JsonRoundTrip(cmds) ==
    [i \in 1..Len(cmds) |->
        PyList([j \in 1..Len(cmds[i].items) |-> JsonScalar(cmds[i].items[j])])]

----------------------------------------------------------------------------
(* The server: the snapshot store, the clock and the two handlers.         *)

MaxUploads == 2
MaxTime    == 62
MaxAge     == 60
MaxBytes   == 1500000
NoRef      == 0

Robots    == {"r1", "r2"}
\* One upload and one brain request run at a time, each interleaving with the
\* other.  upload touches LATEST in a single step (line 79) and a request
\* waiting in image.read() holds no shared state.
Uploaders == {"u1"}
Brains    == {"b1"}

\* x_api_key: the header is absent, or carries the right or a wrong key.
NoKey == "none"
Keys  == {NoKey, "secret", "wrong"}

\* The instants the clock is observed at: 0, 1, and the window's edge onwards.
Times == {0, 1} \cup (MaxAge..MaxTime)

ContentTypes == {"image/jpeg", "image/png", "image/gif"}
Sizes        == {1, MaxBytes, MaxBytes + 1}

\* if PROXY_API_KEY and (x_api_key != PROXY_API_KEY): raise HTTPException(401)
\* A mutant of require_key: a request without the header passes.
require_key_absent_ok(x_api_key) ==
    ~(PROXY_API_KEY # NoKey /\ x_api_key # NoKey /\ x_api_key # PROXY_API_KEY)

require_key(x_api_key) == ~(PROXY_API_KEY # NoKey /\ x_api_key # PROXY_API_KEY)

\* History of a request: a proxy key is configured and the request's
\* x-api-key header is not that key.
KeyMismatch(x_api_key) == PROXY_API_KEY # NoKey /\ x_api_key # PROXY_API_KEY

NoEntry == [b64 |-> 0, ts |-> 0, mime |-> ""]

\* A mutant of StoreEntry: an existing entry dict is updated in place.
StoreEntryInPlace(r, e) ==
    IF LATEST[r] # NoRef
    THEN [latest |-> LATEST, heap |-> [heap EXCEPT ![LATEST[r]] = e]]
    ELSE [latest |-> [LATEST EXCEPT ![r] = Len(heap) + 1], heap |-> Append(heap, e)]

\* A mutant of StoreEntry: the new dict is merged with the old one, whose
\* timestamp survives.
StoreEntryKeepTs(r, e) ==
    LET m == IF LATEST[r] # NoRef THEN [e EXCEPT !.ts = heap[LATEST[r]].ts] ELSE e
    IN  [latest |-> [LATEST EXCEPT ![r] = Len(heap) + 1], heap |-> Append(heap, m)]

\* LATEST[robot_id] = {...}: a new dict is built, then bound to the key.
StoreEntry(r, e) ==
    [latest |-> [LATEST EXCEPT ![r] = Len(heap) + 1], heap |-> Append(heap, e)]

\* A mutant of IsStale: an entry aged exactly MaxAge is stale too.
IsStaleInclusive(ts, t) == t - ts >= MaxAge

\* time.time() - entry["ts"] > 60
IsStale(ts, t) == t - ts > MaxAge

\* An upload request: its position, its locals (robot, ctype), the status
\* of its response, and as history badkey (its key was wrong) and size (the
\* length of the body it read).
UpIdle == [pc |-> "idle", robot |-> "r1", ctype |-> "", status |-> 0,
           badkey |-> FALSE, size |-> 0]
NoResp == [status |-> 0, cmds |-> << >>, error |-> FALSE, exc |-> ""]
\* A brain request: its position, its locals (robot, entry), its response, and
\* as history what it observed: badkey (its key was wrong), found (LATEST.get
\* gave an entry), tnow and tsSeen
\* (the two operands of line 86), sent (the image sent to the oracle), calls
\* (oracle invocations), outcome and cmdsk (how the call ended).
BrIdle == [pc |-> "idle", robot |-> "r1", badkey |-> FALSE, entry |-> NoRef,
           found |-> FALSE, tnow |-> 0, tsSeen |-> 0, sent |-> NoEntry, calls |-> 0,
           outcome |-> "", cmdsk |-> "", resp |-> NoResp]

\* An entry dict lives as long as LATEST or a running brain request refers
\* to it; a dict nothing refers to is freed, and nothing can read it again.
Live(latest, brv) == {latest[r] : r \in Robots} \cup {brv[b].entry : b \in Brains}
Collect(objs, latest, brv) ==
    [i \in 1..Len(objs) |-> IF i \in Live(latest, brv) THEN objs[i] ELSE NoEntry]

InFlight == Cardinality({u \in Uploaders : up[u].pc = "reading"})

\* upload, lines 72-75: key check, content-type check, then await image.read().
UploadStart(u, r, key, ctype) ==
    /\ up[u].pc = "idle"
    /\ Len(stored) + InFlight < MaxUploads
    /\ up' = [up EXCEPT ![u] =
                IF ~require_key(key)
                THEN [UpIdle EXCEPT !.pc = "done", !.status = 401,
                                    !.badkey = KeyMismatch(key)]
                ELSE IF ctype \notin {"image/jpeg", "image/jpg", "image/png"}
                THEN [UpIdle EXCEPT !.pc = "done", !.status = 415, !.ctype = ctype,
                                    !.badkey = KeyMismatch(key)]
                ELSE [UpIdle EXCEPT !.pc = "reading", !.robot = r, !.ctype = ctype,
                                    !.badkey = KeyMismatch(key)]]
    /\ UNCHANGED <<PROXY_API_KEY, LATEST, heap, now, br, stored, valVars>>

\* upload, lines 75-80: the read completes with size bytes; size check,
\* base64, store, return.  The payload of the n-th stored upload is n, and so
\* is its base64 text (b64encode is injective, so the text identifies the
\* payload).
UploadFinish(u, size) ==
    /\ up[u].pc = "reading"
    /\ IF size > MaxBytes
       THEN /\ up' = [up EXCEPT ![u] = [UpIdle EXCEPT !.pc = "done", !.status = 413,
                                                         !.size = size]]
            /\ UNCHANGED <<LATEST, heap, stored>>
       ELSE LET e == [b64 |-> Len(stored) + 1, ts |-> now, mime |-> up[u].ctype]
                st == StoreEntry(up[u].robot, e)
            IN  /\ LATEST' = st.latest
                /\ heap' = Collect(st.heap, st.latest, br)
                /\ stored' = Collect(Append(stored, e), st.latest, br)
                /\ up' = [up EXCEPT ![u] = [UpIdle EXCEPT !.pc = "done", !.status = 200,
                                                              !.size = size]]
    /\ UNCHANGED <<PROXY_API_KEY, now, br, valVars>>

\* The client has its response; the slot serves the next request.
UploadReset(u) ==
    /\ up[u].pc = "done"
    /\ up' = [up EXCEPT ![u] = UpIdle]
    /\ UNCHANGED <<PROXY_API_KEY, LATEST, heap, now, br, stored, valVars>>

----------------------------------------------------------------------------
(* brain.                                                                  *)

\* What plan.get("cmds", []) can be: [k, items], k the Python type and items
\* what iterating the value yields (the characters of a str, the keys of a
\* dict); an int, a bool or None cannot be iterated.
CmdsList(its) == [k |-> "list", items |-> its]
CmdsStr       == [k |-> "str",
                  items |-> <<PyElem(PyStr("H")), PyElem(PyStr("O")),
                              PyElem(PyStr("M")), PyElem(PyStr("E"))>>]
CmdsInt       == [k |-> "int",  items |-> << >>]
CmdsNone      == [k |-> "null", items |-> << >>]

OracleCmds ==
    {CmdsList(<< >>),
     CmdsList(ScenarioPlan),
     CmdsList(<<PyList(<<PyStr("HOME")>>), PyList(<<PyStr("WAIT"), PyStr("abc")>>)>>),
     CmdsList(<<PyList(<<PyStr("WAIT"), PyInf>>)>>),
     CmdsStr, CmdsInt, CmdsNone}

\* How the call of lines 90-110 can end:
\*   "raise"    client.responses.create raises (network, API error)
\*   "timeout"  the client's timeout expires and it raises
\*   "badjson"  json.loads(resp.output_text) raises
\*   "nondict"  the JSON value is no object: plan.get raises AttributeError
\*   "nocmds"   an object without "cmds": plan.get gives the default []
\*   "cmds"     an object with "cmds"
FailOutcomes == {"raise", "timeout", "badjson", "nondict"}
Outcomes ==
    {[kind |-> f, cmds |-> CmdsList(<< >>)] : f \in FailOutcomes \cup {"nocmds"}}
    \cup {[kind |-> "cmds", cmds |-> c] : c \in OracleCmds}

Resp(cmds, err)  == [status |-> 200, cmds |-> cmds, error |-> err, exc |-> ""]
Crash(e)         == [status |-> 500, cmds |-> << >>, error |-> FALSE, exc |-> e]
Rejected         == [status |-> 401, cmds |-> << >>, error |-> FALSE, exc |-> ""]

\* Lines 109-135 on the outcome of the call: the try block covers the call,
\* json.loads and plan.get; "for c in cmds" and the loop body are outside it.
BrainResponse(o) ==
    IF o.kind \in FailOutcomes THEN Resp(<< >>, TRUE)
    ELSE IF o.cmds.k \notin {"list", "str", "dict"} THEN Crash("TypeError")
    ELSE LET r == Validate(o.cmds.items)
         IN  IF r.ok THEN Resp(r.safe, FALSE) ELSE Crash(r.exc)

\* brain, lines 84-85: key check, then entry = LATEST.get(robot_id).
BrainStart(b, r, key) ==
    /\ br[b].pc = "idle"
    /\ br' = [br EXCEPT ![b] =
                IF ~require_key(key)
                THEN [BrIdle EXCEPT !.pc = "done", !.robot = r, !.resp = Rejected,
                                    !.badkey = KeyMismatch(key)]
                ELSE [BrIdle EXCEPT !.pc = "got", !.robot = r, !.entry = LATEST[r],
                                    !.badkey = KeyMismatch(key),
                                    !.found = (LATEST[r] # NoRef)]]
    /\ UNCHANGED <<PROXY_API_KEY, LATEST, heap, now, up, stored, valVars>>

\* A mutant of BrainCheck: a stale entry is removed from LATEST when it is
\* found stale.
BrainCheckEvict(b) ==
    /\ br[b].pc = "got"
    /\ LET ref == br[b].entry
           ts  == IF ref = NoRef THEN 0 ELSE heap[ref].ts
       IN  /\ br' = [br EXCEPT ![b] =
                    IF ref = NoRef
                    THEN [@ EXCEPT !.pc = "done", !.resp = Resp(<< >>, FALSE)]
                    ELSE IF IsStale(ts, now)
                    THEN [@ EXCEPT !.pc = "done", !.entry = NoRef, !.tnow = now,
                                   !.tsSeen = ts, !.resp = Resp(<< >>, FALSE)]
                    ELSE [@ EXCEPT !.pc = "fresh", !.tnow = now, !.tsSeen = ts]]
           /\ LATEST' = IF ref # NoRef /\ IsStale(ts, now)
                        THEN [LATEST EXCEPT ![br[b].robot] = NoRef]
                        ELSE LATEST
    /\ heap' = Collect(heap, LATEST', br')
    /\ stored' = Collect(stored, LATEST', br')
    /\ UNCHANGED <<PROXY_API_KEY, now, up, valVars>>

\* brain, lines 86-87: "if not entry or (time.time() - entry['ts'] > 60)".
BrainCheck(b) ==
    /\ br[b].pc = "got"
    /\ LET ref == br[b].entry
           ts  == IF ref = NoRef THEN 0 ELSE heap[ref].ts
       IN  br' = [br EXCEPT ![b] =
                IF ref = NoRef
                THEN [@ EXCEPT !.pc = "done", !.resp = Resp(<< >>, FALSE)]
                ELSE IF IsStale(ts, now)
                THEN [@ EXCEPT !.pc = "done", !.entry = NoRef, !.tnow = now, !.tsSeen = ts,
                               !.resp = Resp(<< >>, FALSE)]
                ELSE [@ EXCEPT !.pc = "fresh", !.tnow = now, !.tsSeen = ts]]
    /\ heap' = Collect(heap, LATEST, br')
    /\ stored' = Collect(stored, LATEST, br')
    /\ UNCHANGED <<PROXY_API_KEY, LATEST, now, up, valVars>>

\* brain, lines 90-108: the request is built from entry["b64"] and
\* entry["mime"] and sent to the oracle.
BrainCall(b) ==
    /\ br[b].pc = "fresh"
    /\ br' = [br EXCEPT ![b] =
                [@ EXCEPT !.pc = "calling", !.calls = @ + 1,
                          !.sent = [b64  |-> heap[br[b].entry].b64,
                                    ts   |-> 0,
                                    mime |-> heap[br[b].entry].mime]]]
    /\ UNCHANGED <<PROXY_API_KEY, LATEST, heap, now, up, stored, valVars>>

\* A mutant of BrainFinish: after a failed call the request goes back to
\* call the oracle again.
BrainFinishRetry(b, o) ==
    /\ br[b].pc = "calling"
    /\ br' = [br EXCEPT ![b] =
                IF o.kind \in FailOutcomes
                THEN [@ EXCEPT !.pc = "fresh", !.sent = NoEntry]
                ELSE [@ EXCEPT !.pc = "done", !.entry = NoRef, !.sent = NoEntry,
                               !.outcome = o.kind, !.cmdsk = o.cmds.k,
                               !.resp = BrainResponse(o)]]
    /\ heap' = Collect(heap, LATEST, br')
    /\ stored' = Collect(stored, LATEST, br')
    /\ UNCHANGED <<PROXY_API_KEY, LATEST, now, up, valVars>>

\* brain, lines 109-135: the call ends, the plan is validated, brain returns
\* (its locals entry, b64 and mime are gone with the frame).
BrainFinish(b, o) ==
    /\ br[b].pc = "calling"
    /\ br' = [br EXCEPT ![b] =
                [@ EXCEPT !.pc = "done", !.entry = NoRef, !.sent = NoEntry,
                          !.outcome = o.kind, !.cmdsk = o.cmds.k,
                          !.resp = BrainResponse(o)]]
    /\ heap' = Collect(heap, LATEST, br')
    /\ stored' = Collect(stored, LATEST, br')
    /\ UNCHANGED <<PROXY_API_KEY, LATEST, now, up, valVars>>

\* The robot has its response; the slot serves the next request.
BrainReset(b) ==
    /\ br[b].pc = "done"
    /\ br' = [br EXCEPT ![b] = BrIdle]
    /\ UNCHANGED <<PROXY_API_KEY, LATEST, heap, now, up, stored, valVars>>

\* time.time() moves on.
Tick ==
    /\ \E t \in Times : t > now /\ now' = t
    /\ UNCHANGED <<PROXY_API_KEY, LATEST, heap, up, br, stored, valVars>>

ValIdle == Returned(<< >>)

\* The state once the module is loaded and the app serves: LATEST = {} and the
\* proxy key as the environment sets it.  (Line 15 builds the client from the
\* name openai_api_key, which line 10 spells OPENAI_API_KEY; the handlers are
\* modelled as they run once the client exists.)
Init ==
    /\ PROXY_API_KEY \in {NoKey, "secret"}
    /\ LATEST = [r \in Robots |-> NoRef]
    /\ heap = << >>
    /\ now = 0
    /\ up = [u \in Uploaders |-> UpIdle]
    /\ br = [b \in Brains |-> BrIdle]
    /\ stored = << >>
    /\ raw = << >>
    /\ vpc = "off"
    /\ res1 = ValIdle
    /\ res2 = ValIdle

Next ==
    \/ \E u \in Uploaders, r \in Robots, key \in Keys, ct \in ContentTypes :
            UploadStart(u, r, key, ct)
    \/ \E u \in Uploaders, sz \in Sizes : UploadFinish(u, sz)
    \/ \E u \in Uploaders : UploadReset(u)
    \/ \E b \in Brains, r \in Robots, key \in Keys : BrainStart(b, r, key)
    \/ \E b \in Brains : BrainCheck(b)
    \/ \E b \in Brains : BrainCall(b)
    \/ \E b \in Brains, o \in Outcomes : BrainFinish(b, o)
    \/ \E b \in Brains : BrainReset(b)
    \/ Tick

Spec == Init /\ [][Next]_vars

----------------------------------------------------------------------------
(* The validation loop on its own.                                         *)

\* brain, lines 114-135, on the cmds of a raw plan.
ValidateRaw ==
    /\ vpc = "ready"
    /\ res1' = Validate(raw)
    /\ vpc' = "validated"
    /\ UNCHANGED <<raw, res2, srvVars>>

\* The returned cmds, as the receiver decodes them, validated again.
Revalidate ==
    /\ vpc = "validated"
    /\ res1.ok
    /\ res2' = Validate(JsonRoundTrip(res1.safe))
    /\ vpc' = "revalidated"
    /\ UNCHANGED <<raw, res1, srvVars>>

InitV ==
    /\ PROXY_API_KEY = NoKey
    /\ LATEST = [r \in Robots |-> NoRef]
    /\ heap = << >>
    /\ now = 0
    /\ up = [u \in Uploaders |-> UpIdle]
    /\ br = [b \in Brains |-> BrIdle]
    /\ stored = << >>
    /\ raw \in RawPlans
    /\ vpc = "ready"
    /\ res1 = ValIdle
    /\ res2 = ValIdle

NextV == ValidateRaw \/ Revalidate

SpecV == InitV /\ [][NextV]_vars

----------------------------------------------------------------------------
(* Claims about the validation loop, checked under SpecV.                  *)

\* The run of the loop on raw has ended by returning safe.
HasReturned == vpc # "ready" /\ res1.ok

\* v is a number (int or finite float) with lo <= v <= hi.
NumIn(v, lo, hi)  == v.k \in {"int", "float"} /\ 2 * lo <= v.h /\ v.h <= 2 * hi
\* v is an int with lo <= v <= hi.
IntIn(v, lo, hi)  == v.k = "int" /\ v.h % 2 = 0 /\ 2 * lo <= v.h /\ v.h <= 2 * hi

Tag(c) == c.items[1].s

\* C1: every MOVE command of the returned cmds has base in [-150,150],
\* shoulder in [-10,120], elbow in [0,130], wrist in [-90,90], gripper state
\* in {0,1} and duration in [1000,20000].
C1_MoveWithinLimits ==
    HasReturned =>
        \A i \in 1..Len(res1.safe) :
            LET c == res1.safe[i]
            IN  Tag(c) = "MOVE" =>
                    /\ Len(c.items) = 7
                    /\ NumIn(c.items[2], -150, 150)
                    /\ NumIn(c.items[3], -10, 120)
                    /\ NumIn(c.items[4], 0, 130)
                    /\ NumIn(c.items[5], -90, 90)
                    /\ IntIn(c.items[6], 0, 1)
                    /\ IntIn(c.items[7], 1000, 20000)

\* C1's case: a MOVE whose base of 200 is beyond the limit was returned with
\* base 150.
C1_Witness ==
    /\ HasReturned
    /\ raw = <<PyList([NominalMove EXCEPT ![2] = PyInt(200)])>>
    /\ Len(res1.safe) = 1
    /\ res1.safe[1].items[2] = PyInt(150)

\* C2: the validation loop never fails: on every raw plan it returns a cmds
\* list, no exception escapes it.
C2_ValidatorNeverFails == vpc # "ready" => res1.ok

\* The validated form of the well-formed commands that surround the subject.
ValidatedForm(c) ==
    IF c = PyList(NominalMove)
    THEN PyList(<<PyStr("MOVE"), PyFlt(20), PyFlt(100), PyFlt(120), PyFlt(0),
                  PyInt(1), PyInt(1500)>>)
    ELSE c

Occurrences(seq, x) == Cardinality({i \in 1..Len(seq) : seq[i] = x})

\* C3: every well-formed command of a raw plan appears, validated, in the
\* returned cmds, whatever malformed command stands before or after it.
C3_PerElementIndependence ==
    (vpc # "ready" /\ \E i \in 1..Len(raw) : raw[i] \in ContextCmds) =>
        /\ res1.ok
        /\ \A c \in ContextCmds :
              Occurrences(raw, c) <= Occurrences(res1.safe, ValidatedForm(c))

KnownTags == {"HOME", "STOP", "STATUS", "WAIT", "GRIP", "MOVE"}

\* The arity the table of the specification requires of a tag.
RequiredArity(t) ==
    CASE t = "MOVE"             -> 7
      [] t \in {"WAIT", "GRIP"} -> 2
      [] OTHER                  -> 1

\* c is a command the table discards: no list, an empty list, an unknown
\* tag, a wrong arity, or a required field that is no number and does not
\* coerce to one.
MustDiscard(c) ==
    \/ c.k # "list"
    \/ c.items = << >>
    \/ c.items[1].k # "str"
    \/ Tag(c) \notin KnownTags
    \/ Len(c.items) # RequiredArity(Tag(c))
    \/ /\ Tag(c) = "MOVE"
       /\ \/ \E j \in 2..5 : IsErr(float(c.items[j]))
          \/ \E j \in 6..7 : IsErr(int(c.items[j]))
    \/ Tag(c) \in {"WAIT", "GRIP"} /\ IsErr(int(c.items[2]))

\* C4: a command of wrong arity, with an unknown tag or with a non-numeric
\* required field contributes nothing to the returned cmds: the returned
\* list is no longer than the number of commands that are none of these.
C4_DiscardCorrectness ==
    HasReturned =>
        Len(res1.safe) <= Cardinality({i \in 1..Len(raw) : ~MustDiscard(raw[i])})


\* A number of any magnitude: an int, a float, or a value beyond the float
\* range (1e400 decodes to inf, a 400-digit literal to an int no float holds).
IsNumber(v) == v.k \in {"int", "float", "inf", "ninf", "huge"}

\* c is a MOVE of arity 7, a WAIT of arity 2 or a GRIP of arity 2 whose
\* fields are all numbers.
WellTyped(c) ==
    /\ c.k = "list"
    /\ c.items # << >>
    /\ c.items[1].k = "str"
    /\ Tag(c) \in {"MOVE", "WAIT", "GRIP"}
    /\ Len(c.items) = RequiredArity(Tag(c))
    /\ \A j \in 2..Len(c.items) : IsNumber(c.items[j])

\* max(lower, min(upper, value)) of the specification, in halves.
Saturate(v, lo, hi) ==
    CASE v.k \in {"inf", "huge"} -> 2 * hi
      [] v.k = "ninf"            -> 2 * lo
      [] OTHER -> IF v.h > 2 * hi THEN 2 * hi ELSE IF v.h < 2 * lo THEN 2 * lo ELSE v.h

\* out is the one command the table yields for the well-typed command c:
\* angles saturated, durations saturated and coerced to an integer, gripper
\* state 0 or 1.
SaturatedImage(c, out) ==
    /\ out.k = "list" /\ Len(out.items) = Len(c.items) /\ Tag(out) = Tag(c)
    /\ \A j \in 2..Len(out.items) : out.items[j].k \in {"int", "float"}
    /\ Tag(c) = "MOVE" =>
          /\ out.items[2].h = Saturate(c.items[2], -150, 150)
          /\ out.items[3].h = Saturate(c.items[3], -10, 120)
          /\ out.items[4].h = Saturate(c.items[4], 0, 130)
          /\ out.items[5].h = Saturate(c.items[5], -90, 90)
          /\ IntIn(out.items[6], 0, 1)
          /\ out.items[7].h = TruncH(Saturate(c.items[7], 1000, 20000))
    /\ Tag(c) = "WAIT" => out.items[2].h = TruncH(Saturate(c.items[2], 0, 5000))
    /\ Tag(c) = "GRIP" => IntIn(out.items[2], 0, 1)

\* The validated plan of the specification's scenario, as numbers in halves.
ScenarioValues ==
    << <<0, 300, 100, 120, 0, 2, 2000>>, <<0, 10000>>, <<0, 2>> >>

\* C8: every well-typed MOVE, WAIT and GRIP yields exactly one command whose
\* numeric fields are the saturated input values, however far out of range
\* they are; the scenario plan yields [MOVE 150 50 60 0 1 1000, WAIT 5000,
\* GRIP 1].
C8_ClampSaturates ==
    vpc # "ready" =>
        /\ raw = ScenarioPlan =>
              /\ res1.ok
              /\ Len(res1.safe) = 3
              /\ \A i \in 1..3 :
                    [j \in 1..Len(res1.safe[i].items) |-> res1.safe[i].items[j].h]
                        = ScenarioValues[i]
              /\ <<Tag(res1.safe[1]), Tag(res1.safe[2]), Tag(res1.safe[3])>>
                    = <<"MOVE", "WAIT", "GRIP">>
        /\ (\A i \in 1..Len(raw) : WellTyped(raw[i])) =>
              /\ res1.ok
              /\ Len(res1.safe) = Len(raw)
              /\ \A i \in 1..Len(raw) : SaturatedImage(raw[i], res1.safe[i])

\* C9: every WAIT command of the returned cmds has an integer duration in
\* [0,5000] and every GRIP command a state in {0,1}.
C9_WaitGripWithinLimits ==
    HasReturned =>
        \A i \in 1..Len(res1.safe) :
            LET c == res1.safe[i]
            IN  /\ Tag(c) = "WAIT" => Len(c.items) = 2 /\ IntIn(c.items[2], 0, 5000)
                /\ Tag(c) = "GRIP" => Len(c.items) = 2 /\ IntIn(c.items[2], 0, 1)

\* C9's case: a WAIT of 99999 ms was returned as a WAIT of 5000 ms.
C9_Witness ==
    /\ HasReturned
    /\ raw = <<PyList(<<PyStr("WAIT"), PyInt(99999)>>)>>
    /\ res1.safe = <<PyList(<<PyStr("WAIT"), PyInt(5000)>>)>>

\* C10: validating the returned cmds again, as the receiver decodes them,
\* returns an identical cmds list.
C10_Idempotent == vpc = "revalidated" => res2.ok /\ res2.safe = res1.safe

\* C10's case: the scenario plan, which validation changed, was validated a
\* second time.
C10_Witness ==
    /\ vpc = "revalidated"
    /\ raw = ScenarioPlan
    /\ res1.safe # raw
    /\ Len(res2.safe) = 3


----------------------------------------------------------------------------
(* Claims about the server, checked under Spec.                            *)

\* The oracle call of request q failed: it raised or timed out, its output
\* was no JSON, or the JSON broke the schema (no object, no cmds, or a cmds
\* that is no array).
OracleFailed(q) ==
    \/ q.outcome \in {"raise", "timeout", "badjson", "nondict", "nocmds"}
    \/ q.outcome = "cmds" /\ q.cmdsk # "list"

\* C5: whenever the oracle call fails in any of these ways, brain returns
\* an empty cmds list together with an error string, and never crashes.
C5_OracleFailureDegrades ==
    \A b \in Brains :
        (br[b].pc = "done" /\ br[b].calls > 0 /\ OracleFailed(br[b])) =>
            (br[b].resp.status = 200 /\ br[b].resp.cmds = << >> /\ br[b].resp.error)

\* The request read an entry at line 85 whose age at line 86 was at most 60.
SawFresh(q) == q.found /\ q.tnow - q.tsSeen <= 60

\* C6: a brain request that passed the key check invokes the oracle if and
\* only if LATEST held an entry for its robot and now - ts <= 60; otherwise
\* it returns {"cmds": []} and the oracle is not invoked.  While the request
\* runs, what it holds is the store's entry and that entry's timestamp.
C6_FreshnessGate ==
    \A b \in Brains :
        LET q == br[b]
        IN  /\ q.pc \in {"got", "fresh", "calling"} => (q.found <=> q.entry # NoRef)
            /\ q.pc \in {"idle", "got", "fresh"} => q.calls = 0
            /\ q.pc \in {"fresh", "calling"} =>
                  /\ SawFresh(q)
                  /\ q.tsSeen = stored[q.entry].ts
            /\ q.pc = "calling" => q.calls = 1
            /\ (q.pc = "done" /\ q.resp.status # 401) =>
                  /\ q.calls = 1 <=> SawFresh(q)
                  /\ q.calls = 0 <=> ~SawFresh(q)
                  /\ q.calls = 0 =>
                        q.resp = [status |-> 200, cmds |-> << >>, error |-> FALSE, exc |-> ""]

\* C6's case: the oracle is being invoked for an entry aged exactly 60.
C6_Witness ==
    \E b \in Brains : br[b].pc = "calling" /\ br[b].tnow - br[b].tsSeen = 60

\* C7: the timestamp a brain request checked and the payload and MIME type
\* it sent to the oracle are those of one completed upload.
C7_NoTornRead ==
    \A b \in Brains :
        LET q == br[b]
        IN  q.pc = "calling" =>
                \E i \in 1..Len(stored) :
                    /\ stored[i].b64 = i
                    /\ stored[i] = [b64 |-> q.sent.b64, ts |-> q.tsSeen, mime |-> q.sent.mime]

\* C7's case: an upload for the request's robot completed after the request
\* read LATEST, at a later time and with another MIME type, and the request
\* then sent its image to the oracle.
C7_Witness ==
    \E b \in Brains :
        LET q == br[b]
        IN  /\ q.pc = "calling"
            /\ LATEST[q.robot] # q.entry
            /\ heap[LATEST[q.robot]].ts > q.tsSeen
            /\ heap[LATEST[q.robot]].mime # q.sent.mime


----------------------------------------------------------------------------
(* Further claims about the validation loop, checked under SpecV.          *)

\* The j-th smallest element of a set of indices.
NthOf(S, j) == CHOOSE x \in S : Cardinality({y \in S : y < x}) = j - 1

\* out is what the loop body appends for the element c of a raw plan.
ImageOf(c, out) == ValidateCmd(c).r = "append" /\ ValidateCmd(c).cmd = out

\* C11: the returned cmds is the image, in order, of a subsequence of the raw
\* plan: the j-th returned command comes from the j-th chosen element, so
\* nothing is reordered or duplicated.
C11_OrderPreserved ==
    HasReturned =>
        \E S \in SUBSET (1..Len(raw)) :
            /\ Cardinality(S) = Len(res1.safe)
            /\ \A j \in 1..Len(res1.safe) : ImageOf(raw[NthOf(S, j)], res1.safe[j])

\* C11's case: of HOME, FOO, WAIT 100 the loop returned HOME, WAIT 100.
C11_Witness ==
    /\ HasReturned
    /\ raw = <<PyList(<<PyStr("HOME")>>), PyList(<<PyStr("FOO")>>),
               PyList(<<PyStr("WAIT"), PyInt(100)>>)>>
    /\ res1.safe = <<PyList(<<PyStr("HOME")>>), PyList(<<PyStr("WAIT"), PyInt(100)>>)>>

\* v is a finite JSON number.
FiniteNumber(v) == v.k \in {"int", "float"}

\* c is a command with the given tag and arity whose field at position pos
\* is a finite number.
HasGripperField(c, tag, arity, pos) ==
    /\ c.k = "list"
    /\ Len(c.items) = arity
    /\ c.items[1].k = "str"
    /\ Tag(c) = tag
    /\ FiniteNumber(c.items[pos])

\* The gripper field at position pos of c is mapped as the specification
\* says: every nonzero number to 1, zero to 0.
GripperMapped(c, pos) ==
    /\ ValidateCmd(c).r = "append"
    /\ ValidateCmd(c).cmd.items[pos] = IF c.items[pos].h # 0 THEN PyInt(1) ELSE PyInt(0)

\* C18: whenever the loop has returned, every GRIP of arity 2 and every
\* well-typed MOVE of arity 7 with a finite gripper value was emitted with
\* gripper 1 if the value is nonzero (0.5 included) and 0 if it is zero.
C18_GripperMapping ==
    HasReturned =>
        \A i \in 1..Len(raw) :
            /\ HasGripperField(raw[i], "GRIP", PairArity, 2) => GripperMapped(raw[i], 2)
            /\ (HasGripperField(raw[i], "MOVE", MoveArity, 6) /\ WellTyped(raw[i])
                    /\ \A j \in 2..MoveArity : FiniteNumber(raw[i].items[j]))
                 => GripperMapped(raw[i], 6)

\* What holds in the code: the gripper is 1 exactly when the value truncated
\* toward zero is nonzero, so 0.5 and -0.5 give 0.
C18_GripperTruncates ==
    HasReturned =>
        \A i \in 1..Len(raw) :
            HasGripperField(raw[i], "GRIP", PairArity, 2) =>
                /\ ValidateCmd(raw[i]).r = "append"
                /\ ValidateCmd(raw[i]).cmd.items[2] =
                       IF TruncH(raw[i].items[2].h) # 0 THEN PyInt(1) ELSE PyInt(0)

----------------------------------------------------------------------------
(* Further claims about the server, checked under Spec.                    *)

\* What the store holds for robot r: whether LATEST has the key, and the dict
\* bound to it.
EntryIn(latest, objs, r) ==
    IF latest[r] = NoRef THEN [present |-> FALSE, e |-> NoEntry]
    ELSE [present |-> TRUE, e |-> objs[latest[r]]]
EntryOf(r) == EntryIn(LATEST, heap, r)

\* Upload u completes successfully in this step.
UploadStored(u) == up[u].pc = "reading" /\ up'[u].pc = "done" /\ up'[u].status = 200

\* C12: a step in which an upload for robot r succeeds leaves r with exactly
\* the new payload, the new MIME type and the time of the upload, and leaves
\* what the store holds for every other robot as it was; LATEST binds each
\* robot to at most one entry.
C12_UploadReplaces ==
    [][\A u \in Uploaders :
          UploadStored(u) =>
              /\ EntryIn(LATEST', heap', up[u].robot) =
                     [present |-> TRUE,
                      e |-> [b64 |-> Len(stored) + 1, ts |-> now, mime |-> up[u].ctype]]
              /\ \A o \in Robots \ {up[u].robot} :
                     EntryIn(LATEST', heap', o) = EntryOf(o)
              /\ LATEST' \in [Robots -> 0..Len(heap')]]_vars

\* C12's case: a second successful upload went to the robot that had the
\* first one, at a later time; the first entry is gone and the other robot
\* has none.
C12_Witness ==
    \E u \in Uploaders, r \in Robots :
        /\ up[u].pc = "done" /\ up[u].status = 200
        /\ Len(stored) = 2
        /\ EntryOf(r).present /\ EntryOf(r).e.b64 = 2 /\ EntryOf(r).e.ts > 0
        /\ stored[1] = NoEntry
        /\ \A o \in Robots \ {r} : ~EntryOf(o).present

\* The MIME types the upload accepts, and the client errors it answers.
Accepted == {"image/jpeg", "image/jpg", "image/png"}
ClientErrors == {401, 413, 415}

\* Every robot's entry (the dict and the key's presence) is after the step
\* what it was before.
StoreUnchanged ==
    /\ LATEST' = LATEST
    /\ \A r \in Robots : EntryIn(LATEST', heap', r) = EntryOf(r)

\* An upload is answered exactly as its key, content type and size demand.
UploadsJudged ==
    \A u \in Uploaders :
        LET q == up[u]
        IN  /\ q.pc \in {"reading", "done"} => (q.badkey <=> q.status = 401)
            /\ q.pc = "reading" => q.ctype \in Accepted
            /\ q.pc = "done" =>
                  /\ q.status \in ClientErrors \cup {200}
                  /\ q.status = 415 <=> (~q.badkey /\ q.ctype # "" /\ q.ctype \notin Accepted)
                  /\ q.status = 413 <=> q.size > MaxBytes
                  /\ q.status = 200 => q.size > 0 /\ q.size <= MaxBytes

\* A brain request with a wrong key is answered 401 and has neither looked
\* up LATEST nor called the oracle.
BrainsJudged ==
    \A b \in Brains :
        LET q == br[b]
        IN  /\ q.pc # "idle" => (q.badkey <=> q.resp.status = 401)
            /\ q.badkey => /\ q.pc = "done"
                           /\ q.entry = NoRef /\ ~q.found
                           /\ q.calls = 0 /\ q.sent = NoEntry /\ q.outcome = ""

\* C13: an upload with a wrong key, a content type other than JPEG/PNG or a
\* body above 1,500,000 bytes is answered with a client error (401, 415,
\* 413) and the step that rejects it leaves every robot's entry and
\* timestamp as they were; a brain request with a wrong key is answered 401,
\* never reads the store and never calls the oracle.
C13_BoundaryRejection ==
    /\ [](UploadsJudged /\ BrainsJudged)
    /\ [][\A u \in Uploaders :
             (up[u].pc # "done" /\ up'[u].pc = "done" /\ up'[u].status \in ClientErrors)
                 => StoreUnchanged]_vars
    /\ [][\A b \in Brains :
             (br[b].pc = "idle" /\ br'[b].badkey) => StoreUnchanged]_vars

\* C13's case: with a proxy key configured and an entry in the store, an
\* upload was rejected for its size and a brain request for the robot that
\* has the entry was rejected for its key.
C13_Witness ==
    \E u \in Uploaders, b \in Brains :
        /\ PROXY_API_KEY # NoKey
        /\ up[u].pc = "done" /\ up[u].status = 413 /\ up[u].size = MaxBytes + 1
        /\ br[b].pc = "done" /\ br[b].badkey
        /\ EntryOf(br[b].robot).present

\* The response of request q carries a cmds array: it is the JSON body brain
\* returned, not the answer to an exception that left brain.
HasCmdsArray(q) == q.resp.status = 200

\* C14: every response of a brain request that passed the key check carries
\* a cmds array; it carries an error only if the oracle was called and the
\* call failed; it carries none when the snapshot was absent or stale, and
\* none when the oracle's plan was an array, whatever the validator dropped.
C14_ResponseContract ==
    \A b \in Brains :
        LET q == br[b]
        IN  (q.pc = "done" /\ ~q.badkey) =>
                /\ HasCmdsArray(q)
                /\ q.resp.error => (q.calls = 1 /\ OracleFailed(q))
                /\ q.calls = 0 => ~q.resp.error
                /\ (q.outcome = "cmds" /\ q.cmdsk = "list") => ~q.resp.error

\* C16: a brain request calls the oracle at most once: the count of calls
\* rises only from 0 to 1 and only in a request that has just passed the
\* freshness check; a request whose call has ended, failed or not, returns in
\* that same step; and a returned request does nothing more, so a further
\* call needs a new request.
C16_NoRetry ==
    /\ [](\A b \in Brains :
            /\ br[b].calls <= 1
            /\ (br[b].pc = "done" /\ br[b].outcome \in FailOutcomes) =>
                   (br[b].calls = 1 /\ br[b].resp = Resp(<< >>, TRUE)))
    /\ [][\A b \in Brains :
            /\ br'[b].calls > br[b].calls =>
                   (br[b].pc = "fresh" /\ br[b].calls = 0 /\ br'[b].calls = 1)
            /\ (br[b].pc = "calling" /\ br'[b] # br[b]) => br'[b].pc = "done"
            /\ (br[b].pc = "done" /\ br'[b] # br[b]) => br'[b] = BrIdle]_vars

\* C16's case: the one oracle call of a request failed by timeout and the
\* request has returned.
C16_Witness ==
    \E b \in Brains :
        br[b].pc = "done" /\ br[b].outcome = "timeout" /\ br[b].calls = 1

\* In the store given by latest and objs, robot r has an entry older than
\* MaxAge at time t.
StaleIn(latest, objs, t, r) ==
    /\ EntryIn(latest, objs, r).present
    /\ t - EntryIn(latest, objs, r).e.ts > MaxAge

\* Request q holds an entry that is older than MaxAge now.
HoldsStale(q) == q.pc = "got" /\ q.entry # NoRef /\ now - heap[q.entry].ts > MaxAge

\* C17: no step of a brain request creates, removes or changes an entry of
\* the store; an entry that is stale stays stale for as long as no upload
\* rebinds its robot, the clock never going back; a request takes the entry
\* LATEST holds for its robot, and a request holding a stale entry returns
\* empty cmds, without error and without a call of the oracle.
C17_ReadOnlyAndStaleForGood ==
    /\ [][\A b \in Brains : br'[b] # br[b] => StoreUnchanged]_vars
    /\ [][now' >= now]_vars
    /\ [][\A r \in Robots :
            (StaleIn(LATEST, heap, now, r) /\ LATEST'[r] = LATEST[r])
                => StaleIn(LATEST', heap', now', r)]_vars
    /\ [][\A b \in Brains :
            /\ (br[b].pc = "idle" /\ br'[b].pc = "got") =>
                   br'[b].entry = LATEST[br'[b].robot]
            /\ (HoldsStale(br[b]) /\ br'[b] # br[b]) =>
                   /\ br'[b].pc = "done"
                   /\ br'[b].calls = 0
                   /\ br'[b].resp = Resp(<< >>, FALSE)]_vars

\* C17's case: a request found its robot's entry stale and returned empty
\* cmds without a call, and the store still holds that entry, still stale.
C17_Witness ==
    \E b \in Brains :
        LET q == br[b]
        IN  /\ q.pc = "done" /\ q.found /\ q.calls = 0
            /\ q.tnow - q.tsSeen > MaxAge
            /\ q.resp = Resp(<< >>, FALSE)
            /\ StaleIn(LATEST, heap, now, q.robot)
            /\ EntryOf(q.robot).e.ts = q.tsSeen

====
